---------------------------- MODULE Spec2Model ----------------------------
(***************************************************************************)
(* A model of the MERX procurement scrapers of this repository:            *)
(*   scraper.py        MERXScraper.scrape, its helpers, save_results, main  *)
(*   app.py            the Streamlit script: walk of 7 pages, zero-shot     *)
(*                     classification and result filter                     *)
(*   streamlit_app.py  trigger_workflow (the remote dispatch)               *)
(* The web site, the browser driver, the classifier and the HTTP endpoint   *)
(* are the environment: every answer they can give is a nondeterministic    *)
(* choice from a small set.                                                 *)
(*                                                                         *)
(* Text is a sequence of one-character strings, so that strip, split,       *)
(* len, isdigit and strptime are computed and not assumed.                  *)
(***************************************************************************)
EXTENDS Integers, Sequences, FiniteSets, TLC

(***************************************************************************)
(* Bounds of the model (not program constants).                            *)
(***************************************************************************)
\* the largest max_pages a caller passes to scrape
MaxPages == 2
\* the site shows at most this many cards that app.py retains in one run
MaxEntries == 2

(***************************************************************************)
(* Program constants.                                                      *)
(***************************************************************************)
\* scraper.py:236   len(title) > 5
MinTitleLen == 5
\* scraper.py:231   len(line) < 30
MaxDateLineLen == 30
\* app.py:101       for page in range(1, 8)
AppPages == 7
\* app.py:27        confidence_threshold = 0.5, in thousandths
ConfidenceThreshold == 500
\* streamlit_app.py:202   response.status_code == 204
NoContent == 204
\* streamlit_app.py:251   max_pages = 5
DispatchMaxPages == 5

\* a date that did not parse, an absent value: Python's None
None == <<>>

(***************************************************************************)
(* Text primitives (Python str methods used by the code).                  *)
(***************************************************************************)
Digits == {"0", "1", "2", "3", "4", "5", "6", "7", "8", "9"}

DigitVal(c) ==
    CASE c = "0" -> 0 [] c = "1" -> 1 [] c = "2" -> 2 [] c = "3" -> 3
      [] c = "4" -> 4 [] c = "5" -> 5 [] c = "6" -> 6 [] c = "7" -> 7
      [] c = "8" -> 8 [] c = "9" -> 9

\* str.isspace for the characters that occur
IsSpace(c) == c \in {" ", "\n", "\t"}

\* str.lower, one character
Lower(c) ==
    CASE c = "A" -> "a" [] c = "B" -> "b" [] c = "C" -> "c" [] c = "D" -> "d"
      [] c = "E" -> "e" [] c = "F" -> "f" [] c = "G" -> "g" [] c = "H" -> "h"
      [] c = "I" -> "i" [] c = "J" -> "j" [] c = "K" -> "k" [] c = "L" -> "l"
      [] c = "M" -> "m" [] c = "N" -> "n" [] c = "O" -> "o" [] c = "P" -> "p"
      [] c = "Q" -> "q" [] c = "R" -> "r" [] c = "S" -> "s" [] c = "T" -> "t"
      [] c = "U" -> "u" [] c = "V" -> "v" [] c = "W" -> "w" [] c = "X" -> "x"
      [] c = "Y" -> "y" [] c = "Z" -> "z" [] OTHER -> c

LowerText(s) == [i \in 1..Len(s) |-> Lower(s[i])]

RECURSIVE LStrip(_)
LStrip(s) == IF s # <<>> /\ IsSpace(Head(s)) THEN LStrip(Tail(s)) ELSE s

RECURSIVE RStrip(_)
RStrip(s) ==
    IF s # <<>> /\ IsSpace(s[Len(s)]) THEN RStrip(SubSeq(s, 1, Len(s) - 1)) ELSE s

\* str.strip()
Strip(s) == RStrip(LStrip(s))

\* any(char.isdigit() for char in line)
HasDigit(s) == \E i \in 1..Len(s) : s[i] \in Digits

AllDigits(s) == s # <<>> /\ \A i \in 1..Len(s) : s[i] \in Digits

RECURSIVE ToInt(_)
ToInt(s) == IF s = <<>> THEN 0 ELSE 10 * ToInt(SubSeq(s, 1, Len(s) - 1)) + DigitVal(s[Len(s)])

\* str.split(sep) for a one-character separator: the pieces between separators
RECURSIVE SplitOn(_, _)
SplitOn(s, sep) ==
    IF \A i \in 1..Len(s) : s[i] # sep
    THEN <<s>>
    ELSE LET k == CHOOSE i \in 1..Len(s) : s[i] = sep /\ \A j \in 1..(i - 1) : s[j] # sep
         IN  <<SubSeq(s, 1, k - 1)>> \o SplitOn(SubSeq(s, k + 1, Len(s)), sep)

\* the index of the first whitespace character of s, 0 when there is none
FirstSpace(s) ==
    IF \E i \in 1..Len(s) : IsSpace(s[i])
    THEN CHOOSE i \in 1..Len(s) : IsSpace(s[i]) /\ \A j \in 1..(i - 1) : ~IsSpace(s[j])
    ELSE 0

(***************************************************************************)
(* datetime.strptime for the formats the code uses.  A date is <<y, m, d>>  *)
(* (every format is date-only, so the time of day is always midnight).      *)
(***************************************************************************)
MonthNames ==
    << <<"j","a","n","u","a","r","y">>,
       <<"f","e","b","r","u","a","r","y">>,
       <<"m","a","r","c","h">>,
       <<"a","p","r","i","l">>,
       <<"m","a","y">>,
       <<"j","u","n","e">>,
       <<"j","u","l","y">>,
       <<"a","u","g","u","s","t">>,
       <<"s","e","p","t","e","m","b","e","r">>,
       <<"o","c","t","o","b","e","r">>,
       <<"n","o","v","e","m","b","e","r">>,
       <<"d","e","c","e","m","b","e","r">> >>

IsLeap(y) == (y % 4 = 0 /\ y % 100 # 0) \/ y % 400 = 0

DaysIn(y, m) ==
    IF m = 2 THEN (IF IsLeap(y) THEN 29 ELSE 28)
    ELSE IF m \in {4, 6, 9, 11} THEN 30 ELSE 31

\* the directive %Y: exactly four digits
IsYear(s) == Len(s) = 4 /\ AllDigits(s)
\* the directive %m: 1[0-2]|0[1-9]|[1-9]
IsMonth(s) == Len(s) \in {1, 2} /\ AllDigits(s) /\ ToInt(s) \in 1..12
\* the directive %d: 3[01]|[12]\d|0[1-9]|[1-9]
IsDay(s) == Len(s) \in {1, 2} /\ AllDigits(s) /\ ToInt(s) \in 1..31

\* datetime(y, m, d): ValueError when the day is not in the month or year is 0
MakeDate(y, m, d) == IF y >= 1 /\ d <= DaysIn(y, m) THEN <<y, m, d>> ELSE None

\* numeric formats: three fields separated by sep, in the order given by
\* (iy, im, id): the positions of year, month and day
ParseNumeric(s, sep, iy, im, id) ==
    LET p == SplitOn(s, sep)
    IN  IF Len(p) = 3 /\ IsYear(p[iy]) /\ IsMonth(p[im]) /\ IsDay(p[id])
        THEN MakeDate(ToInt(p[iy]), ToInt(p[im]), ToInt(p[id]))
        ELSE None

\* %b (abbrev = TRUE) and %B (abbrev = FALSE), case-insensitive; 0 when no month
MonthOf(name, abbrev) ==
    LET n == LowerText(name)
        hit == {k \in 1..12 : n = (IF abbrev THEN SubSeq(MonthNames[k], 1, 3)
                                             ELSE MonthNames[k])}
    IN  IF hit = {} THEN 0 ELSE CHOOSE k \in hit : TRUE

\* '%b %d, %Y' and '%B %d, %Y': name, whitespace, day, comma, whitespace, year
ParseTextual(s, abbrev) ==
    LET p == SplitOn(s, ",")
        k == IF Len(p) = 2 THEN FirstSpace(p[1]) ELSE 0
    IN  IF Len(p) # 2 \/ k = 0 THEN None
        ELSE LET name == SubSeq(p[1], 1, k - 1)
                 day  == LStrip(SubSeq(p[1], k, Len(p[1])))
                 year == LStrip(p[2])
                 m    == MonthOf(name, abbrev)
             IN  IF m # 0 /\ IsDay(day) /\ year # p[2] /\ IsYear(year)
                 THEN MakeDate(ToInt(year), m, ToInt(day))
                 ELSE None

\* datetime.strptime(s, formats[f]), None for ValueError
Strptime(s, f) ==
    CASE f = 1 -> ParseNumeric(s, "-", 1, 2, 3)    \* %Y-%m-%d
      [] f = 2 -> ParseNumeric(s, "/", 1, 2, 3)    \* %Y/%m/%d
      [] f = 3 -> ParseTextual(s, TRUE)            \* %b %d, %Y
      [] f = 4 -> ParseTextual(s, FALSE)           \* %B %d, %Y
      [] f = 5 -> ParseNumeric(s, "/", 3, 2, 1)    \* %d/%m/%Y
      [] f = 6 -> ParseNumeric(s, "/", 3, 1, 2)    \* %m/%d/%Y
      [] f = 7 -> ParseNumeric(s, "-", 3, 2, 1)    \* %d-%m-%Y
      [] f = 8 -> ParseNumeric(s, "-", 3, 1, 2)    \* %m-%d-%Y

NumFormats == 8

\* MERXScraper._parse_date: the first format that parses, None when none does
_parse_date(date_str) ==
    IF date_str = <<>> THEN None
    ELSE LET t  == Strip(date_str)
             ok == {f \in 1..NumFormats : Strptime(t, f) # None}
         IN  IF ok = {} THEN None
             ELSE Strptime(t, CHOOSE f \in ok : \A g \in ok : f <= g)

\* datetime >= datetime
DateGE(a, b) ==
    \/ a[1] > b[1]
    \/ a[1] = b[1] /\ a[2] > b[2]
    \/ a[1] = b[1] /\ a[2] = b[2] /\ a[3] >= b[3]

(***************************************************************************)
(* The texts the modelled site shows and the callers pass.                 *)
(***************************************************************************)
TitleLong == <<"H","e","a","l","t","h"," ","R","F","P">>
TitleSix == <<"C","l","i","n","i","c">>
TitleFive == <<"A","u","d","i","t">>
OrgName == <<"M","O","H">>
DateOld == <<"2","0","2","3","-","1","2","-","3","1">>
DateCut == <<"2","0","2","4","-","0","1","-","0","1">>
DateNot == <<"n","o","t"," ","a"," ","d","a","t","e">>
DateUsOld == <<"1","2","/","3","1","/","2","0","2","3">>
DateText == <<" ","J","a","n"," ","5",","," ","2","0","2","4">>
DateClose == <<"2","0","2","4","-","0","3","-","0","1">>
TextLines == <<"H","e","a","l","t","h"," ","R","F","P","\n"," ","M","O","H"," ","\n","\n","2","0","2","4","-","0","1","-","0","1","\n","2","0","2","4","-","0","3","-","0","1">>
TextOneLine == <<"R","F","P"," ","2","0","2","4"," ","h","e","a","l","t","h">>
CutMalformed == <<"0","1","/","0","1","/","2","0","2","4">>
CutLenient == <<"2","0","2","4","-","1","-","1">>
SlashOld == <<"2","0","2","3","/","1","2","/","3","1">>
SlashCut == <<"2","0","2","4","/","0","1","/","0","1">>

(***************************************************************************)
(* The site as the scraper sees it.  A row is what one matched element      *)
(* answers: err (reading it raises, e.g. a stale element), text (row.text), *)
(* tds (the text of its <td> children), hrefs (the href of its anchors, ""  *)
(* for an anchor without one).                                              *)
(***************************************************************************)
NoticeHref == "https://www.merx.com/public/solicitations/view-notice/1"
HelpHref == "https://www.merx.com/help"

\* hrefs of the modelled site in which 'view-notice' or 'solicitation' occurs
MarkerHrefs == {NoticeHref}

RECURSIVE JoinCells(_)
JoinCells(tds) ==
    IF tds = <<>> THEN <<>>
    ELSE IF Len(tds) = 1 THEN tds[1]
    ELSE tds[1] \o <<" ">> \o JoinCells(Tail(tds))

TableRow(tds, hrefs) == [err |-> FALSE, text |-> JoinCells(tds), tds |-> tds, hrefs |-> hrefs]
TextRow(text, hrefs) == [err |-> FALSE, text |-> text, tds |-> <<>>, hrefs |-> hrefs]

RowOld == TableRow(<<TitleLong, OrgName, DateOld, DateClose>>, <<HelpHref, NoticeHref>>)
RowCut == TableRow(<<TitleLong, OrgName, DateCut, DateClose>>, <<NoticeHref>>)
RowNot == TableRow(<<TitleSix, OrgName, DateNot, DateClose>>, <<HelpHref>>)
RowThree == TableRow(<<TitleSix, OrgName, DateClose>>, <<>>)
RowShort == TableRow(<<TitleFive, OrgName, DateCut, DateClose>>, <<NoticeHref>>)
RowNoTitle == TableRow(<<<<" ">>, OrgName, DateCut, DateClose>>, <<"">>)
RowUsOld == TableRow(<<TitleLong, OrgName, DateUsOld, DateClose>>, <<NoticeHref>>)
RowFive == TableRow(<<TitleLong, OrgName, DateText, OrgName, DateClose>>, <<NoticeHref>>)
RowStale == [err |-> TRUE, text |-> TitleLong, tds |-> <<>>, hrefs |-> <<>>]
RowBlank == TextRow(<<" ", "\n">>, <<>>)
RowLines == TextRow(TextLines, <<NoticeHref>>)
RowOneLine == TextRow(TextOneLine, <<>>)

\* what find_elements answers for the first selector that matches anything:
\* no row (no selector matches), or a listing with a row of every kind
SitePages ==
    { <<>>,
      <<RowOld, RowCut, RowNot, RowThree, RowShort, RowNoTitle,
        RowUsOld, RowFive, RowStale, RowBlank, RowLines, RowOneLine>> }

\* the min_published_date a caller passes: none, well-formed, malformed, and
\* one without the zero padding, which strptime accepts
CutoffInputs == {None, DateCut, CutMalformed, CutLenient}

(***************************************************************************)
(* MERXScraper._extract_link_from_row                                      *)
(***************************************************************************)
_extract_link_from_row(row) ==
    LET marked == {i \in 1..Len(row.hrefs) :
                     row.hrefs[i] # "" /\ row.hrefs[i] \in MarkerHrefs}
    IN  IF marked # {} THEN row.hrefs[CHOOSE i \in marked : \A j \in marked : i <= j]
        ELSE IF row.hrefs # <<>> THEN row.hrefs[1]
        ELSE ""

(***************************************************************************)
(* MERXScraper._scrape_page, one row                                       *)
(***************************************************************************)
\* [line.strip() for line in row_text.split('\n') if line.strip()]
NonEmptyLines(row_text) ==
    LET parts == SplitOn(row_text, "\n")
        stripped == [i \in 1..Len(parts) |-> Strip(parts[i])]
        Filled(l) == l # <<>>
    IN  SelectSeq(stripped, Filled)

\* a line the heuristic takes for a date
IsDateLine(line) == HasDigit(line) /\ Len(line) < MaxDateLineLen

\* the k-th line, in order, that the heuristic takes for a date ("" if none)
DateLine(lines, k) ==
    LET dated == SelectSeq(lines, IsDateLine)
    IN  IF Len(dated) >= k THEN dated[k] ELSE <<>>

\* the fields of a row with at least 3 <td> cells
StructuredFields(cols) ==
    [title |-> Strip(cols[1]),
     organization |-> Strip(cols[2]),
     published_date |-> IF Len(cols) >= 4 THEN Strip(cols[3]) ELSE <<>>,
     closing_date |-> IF Len(cols) >= 4 THEN Strip(cols[4]) ELSE Strip(cols[3])]

\* the fields of any other row, from the lines of its text
HeuristicFields(row_text) ==
    LET lines == NonEmptyLines(row_text)
    IN  [title |-> IF Len(lines) > 0 THEN lines[1] ELSE SubSeq(row_text, 1, 100),
         organization |-> IF Len(lines) > 1 THEN lines[2] ELSE <<>>,
         published_date |-> DateLine(lines, 1),
         closing_date |-> DateLine(lines, 2)]

\* a variant of the title test with the length limit off by one
TitleAcceptedLonger(title) == title # <<>> /\ Len(title) > MinTitleLen + 1

\* line 236: if title and len(title) > 5
TitleAccepted(title) == title # <<>> /\ Len(title) > MinTitleLen

\* lines 202-204: the row can be read and its text is not blank
IsRead(row) == ~row.err /\ Strip(row.text) # <<>>

\* lines 206-234 and 237-245: the result built from a row that is read.  The
\* field scraped_at (the wall clock) is left out: nothing in the program reads it
RowResult(row, page_num) ==
    LET f == IF Len(row.tds) >= 3 THEN StructuredFields(row.tds)
                                  ELSE HeuristicFields(Strip(row.text))
    IN  [title |-> f.title,
         organization |-> f.organization,
         published_date |-> f.published_date,
         closing_date |-> f.closing_date,
         link |-> _extract_link_from_row(row),
         page |-> page_num]

\* the records one row contributes: <<>> (skipped) or <<result>>
ScrapeRow(row, page_num) ==
    IF IsRead(row) /\ TitleAccepted(RowResult(row, page_num).title)
    THEN <<RowResult(row, page_num)>>
    ELSE <<>>

\* history: the result of every row that is read, accepted or not
RECURSIVE Candidates(_, _)
Candidates(rows, page_num) ==
    IF rows = <<>> THEN <<>>
    ELSE (IF IsRead(Head(rows)) THEN <<RowResult(Head(rows), page_num)>> ELSE <<>>)
             \o Candidates(Tail(rows), page_num)

\* a variant that numbers the pages from 0
RECURSIVE _scrape_page_from_zero(_, _)
_scrape_page_from_zero(rows, page_num) ==
    IF rows = <<>> THEN <<>>
    ELSE ScrapeRow(Head(rows), page_num - 1)
             \o _scrape_page_from_zero(Tail(rows), page_num)

\* MERXScraper._scrape_page: the results of the rows, in order
RECURSIVE _scrape_page(_, _)
_scrape_page(rows, page_num) ==
    IF rows = <<>> THEN <<>>
    ELSE ScrapeRow(Head(rows), page_num) \o _scrape_page(Tail(rows), page_num)

(***************************************************************************)
(* MERXScraper.scrape: the cutoff and the date filter                      *)
(***************************************************************************)
\* a variant that tries every format _parse_date knows
ParseCutoffAnyFormat(min_published_date) == _parse_date(min_published_date)

\* lines 335-341: None, or strptime(min_published_date, '%Y-%m-%d')
ParseCutoff(min_published_date) ==
    IF min_published_date = <<>> THEN None ELSE Strptime(min_published_date, 1)

\* a variant of the date filter that fails closed: a published date that
\* does not parse removes the result
PassesDateFilterClosed(result, min_date_obj) ==
    LET published_str == result.published_date
    IN  IF published_str # <<>>
        THEN LET published_date_obj == _parse_date(published_str)
             IN  IF published_date_obj # None
                 THEN DateGE(published_date_obj, min_date_obj)
                 ELSE FALSE
        ELSE TRUE

\* lines 380-395: whether one result passes the date filter
PassesDateFilter(result, min_date_obj) ==
    LET published_str == result.published_date
    IN  IF published_str # <<>>
        THEN LET published_date_obj == _parse_date(published_str)
             IN  IF published_date_obj # None
                 THEN DateGE(published_date_obj, min_date_obj)
                 ELSE TRUE
        ELSE TRUE

\* lines 377-401: what a page adds to all_results
FilterPage(page_results, min_date_obj) ==
    IF min_date_obj # None
    THEN LET Keep(r) == PassesDateFilter(r, min_date_obj)
         IN  SelectSeq(page_results, Keep)
    ELSE page_results

\* a variant of the loop condition that lets one more page through
LoopContinuesOneMore(p, mp) == p <= mp + 1

\* line 368: while page <= max_pages
LoopContinues(p, mp) == p <= mp

\* line 404: if page < max_pages
TriesNextPage(p, mp) == p < mp

(***************************************************************************)
(* MERXScraper._go_to_next_page.  The candidates are the elements the       *)
(* seven selectors find, in selector priority order and then document       *)
(* order: sel (index of the selector), displayed, disabled / aria /         *)
(* cls (the three ways the code reads "disabled"), click ("ok": click()     *)
(* works, "js": click() raises and the JavaScript click works, "fail":      *)
(* both raise).                                                             *)
(***************************************************************************)
Control(sel, displayed, disabled, aria, cls, click) ==
    [sel |-> sel, displayed |-> displayed, disabled |-> disabled,
     aria |-> aria, cls |-> cls, click |-> click]

NextControlSets ==
    { <<>>,
      <<Control(1, TRUE, FALSE, FALSE, FALSE, "ok")>>,
      <<Control(1, FALSE, FALSE, FALSE, FALSE, "ok"),
        Control(2, TRUE, TRUE, FALSE, FALSE, "ok"),
        Control(5, TRUE, FALSE, FALSE, FALSE, "js")>>,
      <<Control(3, TRUE, FALSE, TRUE, FALSE, "ok"),
        Control(6, TRUE, FALSE, FALSE, TRUE, "ok")>>,
      <<Control(1, TRUE, FALSE, FALSE, FALSE, "fail"),
        Control(1, TRUE, FALSE, FALSE, FALSE, "ok")>>,
      <<Control(1, TRUE, FALSE, FALSE, FALSE, "fail"),
        Control(7, TRUE, FALSE, FALSE, FALSE, "ok")>> }

\* a variant of the disabled test that does not look at the class
IsDisabledNoClass(c) == c.disabled \/ c.aria

\* line 288: if disabled or aria_disabled == 'true' or 'disabled' in classes.lower()
IsDisabled(c) == c.disabled \/ c.aria \/ c.cls

\* the index of the control the call activates, 0 when it returns False.
\* An exception of both clicks is caught by the selector's handler (line 313),
\* which moves on to the next selector: skip is the selector given up.
RECURSIVE ActivatedFrom(_, _, _)
ActivatedFrom(controls, i, skip) ==
    IF i > Len(controls) THEN 0
    ELSE LET c == controls[i]
         IN  IF c.sel = skip \/ ~c.displayed \/ IsDisabled(c)
             THEN ActivatedFrom(controls, i + 1, skip)
             ELSE IF c.click = "fail"
                  THEN ActivatedFrom(controls, i + 1, c.sel)
                  ELSE i

_go_to_next_page(controls) == ActivatedFrom(controls, 1, 0)

(***************************************************************************)
(* State.                                                                  *)
(***************************************************************************)
VARIABLES
    prog,               \* the script that runs: "scraper", "app", "dashboard"
    pc,                 \* where it is
    outcome,            \* how the run went so far: "", "fatal", ...
    source,             \* what driver.get loaded: "", "page", "error 404"
    driver,             \* the browser session: "none", "open", "quit"
    quits,              \* driver.quit() calls of this run
    page,               \* the loop variable page
    scans,              \* page scans of this run
    searches,           \* search terms submitted in this run
    clicks,             \* next-page controls activated in this run
    next_seen,          \* the candidates of the _go_to_next_page call just made
    next_hit,           \* the index it activated, 0 for none
    max_pages,          \* scrape's argument
    min_published_date, \* scrape's argument
    min_date_obj,       \* the parsed cutoff, None when absent or malformed
    all_results,        \* scrape's accumulator
    extracted,          \* history: what _scrape_page returned, page after page
    candidates,         \* history: the result of every row read, before the title test
    artifact,           \* /tmp/merx_results.json
    artifact_before,    \* history: the artifact when the run started
    saved,              \* history: what main did with the file in this run
    min_date,           \* app.py: the cutoff of the date input
    entries,            \* app.py: the accumulator
    windows,            \* app.py: open browser windows
    focus,              \* app.py: the window the driver is on, 0 = listing
    classified,         \* app.py: label, score and derived columns, per entry
    final,              \* app.py: the filtered frame (rows keep their index)
    last_scan,          \* history: the rows (scraper.py) or cards (app.py) of the
                        \* page scan just made, and the length of candidates
                        \* (scraper.py) or entries (app.py) before it
    posts,              \* streamlit_app.py: bodies POSTed by trigger_workflow
    ret,                \* streamlit_app.py: what trigger_workflow returned
    errors              \* streamlit_app.py: st.error calls of trigger_workflow

walk_vars == <<outcome, source, driver, quits, page, scans, searches, clicks, next_seen, next_hit>>
scraper_vars == <<max_pages, min_published_date, min_date_obj, all_results,
                  extracted, candidates, artifact, artifact_before, saved>>
app_vars == <<min_date, entries, windows, focus, classified, final, last_scan>>
dash_vars == <<posts, ret, errors>>
vars == <<prog, pc, walk_vars, scraper_vars, app_vars, dash_vars>>

NoFile == [exists |-> FALSE, intact |-> TRUE, data |-> <<>>]

\* no page scan has just been made
NoScan == [cards |-> <<>>, base |-> 0]

(***************************************************************************)
(* scraper.py: main and MERXScraper.scrape                                 *)
(***************************************************************************)
\* main, lines 448-466, and scrape, lines 332-341: a fresh MERXScraper
\* (driver None), the arguments from the environment, the cutoff parsed
StartRun ==
    /\ prog = "scraper" /\ pc = "idle"
    /\ \E mp \in 0..MaxPages, mpd \in CutoffInputs :
         /\ max_pages' = mp
         /\ min_published_date' = mpd
         /\ min_date_obj' = ParseCutoff(mpd)
    /\ all_results' = <<>> /\ extracted' = <<>> /\ candidates' = <<>>
    /\ artifact_before' = artifact /\ saved' = "none"
    /\ outcome' = "" /\ source' = "" /\ driver' = "none" /\ quits' = 0 /\ page' = 0
    /\ scans' = 0 /\ searches' = 0 /\ clicks' = 0
    /\ next_seen' = <<>> /\ next_hit' = 0
    /\ pc' = "setup"
    /\ UNCHANGED <<prog, artifact, app_vars, dash_vars>>

\* _setup_driver, lines 62-68: the session starts, or the exception is
\* re-raised and caught by scrape's handler (line 411)
SetupDriver ==
    /\ prog = "scraper" /\ pc = "setup"
    /\ \E started \in BOOLEAN :
         IF started
         THEN driver' = "open" /\ pc' = "load" /\ outcome' = outcome
         ELSE driver' = driver /\ pc' = "finally" /\ outcome' = "fatal"
    /\ UNCHANGED <<prog, source, quits, page, scans, searches, clicks, next_seen,
                   next_hit, scraper_vars, app_vars, dash_vars>>

\* a variant without the 404 check
IsErrorPageNever(page_source) == FALSE

\* line 355: if "error 404" in self.driver.page_source.lower()
IsErrorPage(page_source) == page_source = "error 404"

\* lines 349-361: driver.get, then the 404 check on the page source
LoadPage ==
    /\ prog = "scraper" /\ pc = "load"
    /\ \/ /\ pc' = "finally" /\ outcome' = "fatal" /\ source' = source
       \/ \E page_source \in {"page", "error 404"} :
            /\ source' = page_source
            /\ outcome' = outcome
            /\ pc' = IF IsErrorPage(page_source) THEN "finally" ELSE "search"
    /\ UNCHANGED <<prog, driver, quits, page, scans, searches, clicks, next_seen,
                   next_hit, scraper_vars, app_vars, dash_vars>>

\* _perform_search, lines 112-137, and lines 367-368 (page = 1 and the first
\* test of the loop condition).  box: "absent" (no search
\* box: returns True), "typed" (term entered), "typing raises" (caught at 135,
\* returns False, which scrape ignores), "find raises" (_find_search_box is
\* outside the try: the exception reaches scrape's handler)
PerformSearch ==
    /\ prog = "scraper" /\ pc = "search"
    /\ \E box \in {"absent", "typed", "typing raises", "find raises"} :
         /\ searches' = IF box = "typed" THEN searches + 1 ELSE searches
         /\ IF box = "find raises"
            THEN pc' = "finally" /\ outcome' = "fatal" /\ page' = page
            ELSE /\ outcome' = box /\ page' = 1
                 /\ pc' = IF LoopContinues(1, max_pages) THEN "scan" ELSE "finally"
    /\ UNCHANGED <<prog, source, driver, quits, scans, clicks, next_seen, next_hit,
                   scraper_vars, app_vars, dash_vars>>

\* lines 368-409, one iteration up to the next-page step: _scrape_page, the
\* date filter, extend; without a next-page step, page += 1 and the loop
\* test.  find_elements (line 191) is outside the row handler:
\* when it raises, the exception reaches scrape's handler
ScrapePage ==
    /\ prog = "scraper" /\ pc = "scan" /\ LoopContinues(page, max_pages)
    /\ scans' = scans + 1
    /\ next_seen' = <<>> /\ next_hit' = 0
    /\ \/ /\ pc' = "finally" /\ outcome' = "fatal"
          /\ UNCHANGED <<page, all_results, extracted, candidates, last_scan>>
       \/ \E rows \in SitePages :
            LET page_results == _scrape_page(rows, page)
            IN  /\ extracted' = extracted \o page_results
                /\ candidates' = candidates \o Candidates(rows, page)
                /\ last_scan' = [cards |-> rows, base |-> Len(candidates)]
                /\ all_results' = all_results \o FilterPage(page_results, min_date_obj)
                /\ IF TriesNextPage(page, max_pages)
                   THEN pc' = "advance" /\ page' = page
                   ELSE /\ page' = page + 1
                        /\ pc' = IF LoopContinues(page + 1, max_pages) THEN "scan"
                                 ELSE "finally"
                /\ outcome' = outcome
    /\ UNCHANGED <<prog, source, driver, quits, searches, clicks, max_pages,
                   min_published_date, min_date_obj, artifact, artifact_before, saved,
                   min_date, entries, windows, focus, classified, final, dash_vars>>

\* lines 404-409: _go_to_next_page; break when it returns False, else
\* page += 1 and the loop test
GoToNextPage ==
    /\ prog = "scraper" /\ pc = "advance"
    /\ \E controls \in NextControlSets :
         LET hit == _go_to_next_page(controls)
         IN  /\ next_seen' = controls /\ next_hit' = hit
             /\ IF hit # 0
                THEN /\ clicks' = clicks + 1 /\ page' = page + 1
                     /\ pc' = IF LoopContinues(page + 1, max_pages) THEN "scan"
                              ELSE "finally"
                ELSE clicks' = clicks /\ page' = page /\ pc' = "finally"
    /\ last_scan' = NoScan
    /\ UNCHANGED <<prog, outcome, source, driver, quits, scans, searches,
                   scraper_vars, min_date, entries, windows, focus, classified,
                   final, dash_vars>>

\* a variant of the finally clause that never quits
HoldsDriverNever(d) == FALSE

\* line 417: if self.driver
HoldsDriver(d) == d # "none"

\* a variant whose handler gives up what was accumulated: after an exception
\* the list returned is empty
FinallyDropping ==
    /\ prog = "scraper" /\ pc = "finally"
    /\ IF HoldsDriver(driver)
       THEN driver' = "quit" /\ quits' = quits + 1
       ELSE driver' = driver /\ quits' = quits
    /\ pc' = "returned"
    /\ next_seen' = <<>> /\ next_hit' = 0 /\ last_scan' = NoScan
    /\ all_results' = IF outcome = "fatal" THEN <<>> ELSE all_results
    /\ UNCHANGED <<prog, outcome, source, page, scans, searches, clicks,
                   max_pages, min_published_date, min_date_obj, extracted,
                   candidates, artifact, artifact_before, saved,
                   min_date, entries, windows, focus, classified,
                   final, dash_vars>>

\* lines 416-421: finally, then return all_results
Finally ==
    /\ prog = "scraper" /\ pc = "finally"
    /\ IF HoldsDriver(driver)
       THEN driver' = "quit" /\ quits' = quits + 1
       ELSE driver' = driver /\ quits' = quits
    /\ pc' = "returned"
    /\ next_seen' = <<>> /\ next_hit' = 0 /\ last_scan' = NoScan
    /\ UNCHANGED <<prog, outcome, source, page, scans, searches, clicks,
                   scraper_vars, min_date, entries, windows, focus, classified,
                   final, dash_vars>>

\* line 482: if results
SavesResults(results) == results # <<>>

\* a variant that opens the file for appending: the records are merged
save_results_merging(results, file, how) ==
    CASE how = "written"     -> [exists |-> TRUE, intact |-> TRUE, data |-> file.data \o results]
      [] how = "open raises" -> file
      [] how = "dump raises" -> [exists |-> TRUE, intact |-> FALSE, data |-> <<>>]

\* save_results, lines 431-436: open(filename, "w") truncates the file, json.dump
\* writes it; an exception of either is logged and swallowed
save_results(results, file, how) ==
    CASE how = "written"     -> [exists |-> TRUE, intact |-> TRUE, data |-> results]
      [] how = "open raises" -> file
      [] how = "dump raises" -> [exists |-> TRUE, intact |-> FALSE, data |-> <<>>]

\* main, lines 468-496
MainSave ==
    /\ prog = "scraper" /\ pc = "returned"
    /\ IF SavesResults(all_results)
       THEN \E how \in {"written", "open raises", "dump raises"} :
              /\ artifact' = save_results(all_results, artifact, how)
              /\ saved' = how
       ELSE artifact' = artifact /\ saved' = "none"
    /\ pc' = "exited"
    /\ UNCHANGED <<prog, walk_vars, max_pages, min_published_date, min_date_obj,
                   all_results, extracted, candidates, artifact_before, app_vars,
                   dash_vars>>

\* lines 500-501: main returns and the process ends; of what the run held
\* only the file stays for the next scheduled run
ProcessExit ==
    /\ prog = "scraper" /\ pc = "exited"
    /\ pc' = "idle"
    /\ max_pages' = 0 /\ min_published_date' = None /\ min_date_obj' = None
    /\ all_results' = <<>> /\ extracted' = <<>> /\ candidates' = <<>>
    /\ artifact_before' = artifact /\ saved' = "none"
    /\ outcome' = "" /\ source' = "" /\ driver' = "none" /\ quits' = 0 /\ page' = 0
    /\ scans' = 0 /\ searches' = 0 /\ clicks' = 0
    /\ next_seen' = <<>> /\ next_hit' = 0
    /\ UNCHANGED <<prog, artifact, app_vars, dash_vars>>

ScraperNext ==
    \/ StartRun \/ SetupDriver \/ LoadPage \/ PerformSearch \/ ScrapePage
    \/ GoToNextPage \/ Finally \/ MainSave \/ ProcessExit

(***************************************************************************)
(* app.py: the site as the Streamlit script sees it.  A card is what one    *)
(* solicitation-link element answers: has_title / has_date (the span is     *)
(* there), title, published (their text), href ("" for none), relative      *)
(* (href starts with "/"), description (the detail page's text, <<>> when   *)
(* it has no descriptionText), detail (what the browser does with the       *)
(* detail window: "shown", "blocked": window.open opens nothing,            *)
(* "switch raises": switch_to.window raises).                               *)
(***************************************************************************)
Origin == "https://www.merx.com"
CardHref == "https://www.merx.com/public/solicitations/7"
CardPath == "/public/solicitations/8"
DescText == <<"E","H","R"," ","u","p","g","r","a","d","e"," ">>

Card(has_title, title, href, relative, has_date, published, description, detail) ==
    [has_title |-> has_title, title |-> title, href |-> href, relative |-> relative,
     has_date |-> has_date, published |-> published, description |-> description,
     detail |-> detail]

CardGood == Card(TRUE, TitleLong, CardHref, FALSE, TRUE, SlashCut, DescText, "shown")
CardOld == Card(TRUE, TitleLong, CardHref, FALSE, TRUE, SlashOld, DescText, "shown")
CardDashes == Card(TRUE, TitleSix, CardHref, FALSE, TRUE, DateCut, DescText, "shown")
CardNoTitle == Card(TRUE, <<" ">>, CardPath, TRUE, TRUE, SlashCut, <<>>, "shown")
CardNoSpan == Card(FALSE, <<>>, CardHref, FALSE, TRUE, SlashCut, DescText, "shown")
CardLeak == Card(TRUE, TitleSix, CardHref, FALSE, TRUE, SlashCut, <<>>, "switch raises")
CardBlocked == Card(TRUE, TitleSix, CardHref, FALSE, TRUE, SlashCut, DescText, "blocked")

\* what find_elements answers on a page once a card is present
AppSitePages ==
    { <<CardGood>>,
      <<CardOld, CardDashes>>,
      <<CardNoTitle>>,
      <<CardNoSpan, CardLeak, CardGood>>,
      <<CardBlocked>> }

\* app.py:25, 37: the date of the date input, at midnight
AppCutoffs == {<<2024, 1, 1>>}

ListingWindow == [url |-> Origin, description |-> <<>>]

(***************************************************************************)
(* app.py, lines 117-165: one card.  st is <<entries, windows, focus>>;     *)
(* every exception is caught by the bare except (line 164) and the card is  *)
(* skipped with whatever the browser state then is.                         *)
(***************************************************************************)
\* lines 142-162, for a card that passed the date test
VisitDetail(st, card, title, link, published) ==
    LET opened == IF card.detail = "blocked" THEN st.windows
                  ELSE Append(st.windows, [url |-> link, description |-> card.description])
    IN  IF Len(opened) < 2
        THEN [st EXCEPT !.windows = opened]                 \* window_handles[1]: IndexError
        ELSE IF card.detail = "switch raises"
        THEN [st EXCEPT !.windows = opened]
        ELSE \* the driver is on window_handles[1]; it reads and closes that one
             [st EXCEPT !.entries = Append(st.entries,
                                           [Title |-> title, Link |-> link,
                                            Published |-> published,
                                            Description |-> Strip(opened[2].description)]),
                        !.windows = <<opened[1]>> \o SubSeq(opened, 3, Len(opened)),
                        !.focus = 1]

ProcessCard(st, card) ==
    IF st.focus # 1 \/ ~card.has_title \/ card.href = "" \/ ~card.has_date
    THEN st
    ELSE LET title == Strip(card.title)
             link == IF card.relative THEN Origin \o card.href ELSE card.href
             published == Strip(card.published)
             post_date == Strptime(published, 2)
         IN  IF post_date = None THEN st                    \* ValueError
             ELSE IF ~DateGE(post_date, st.min_date) THEN st \* line 138: continue
             ELSE VisitDetail(st, card, title, link, published)

RECURSIVE ProcessCards(_, _)
ProcessCards(st, cards) ==
    IF cards = <<>> THEN st ELSE ProcessCards(ProcessCard(st, Head(cards)), Tail(cards))

(***************************************************************************)
(* app.py: the run                                                         *)
(***************************************************************************)
\* lines 35-59: the button, the cutoff, the driver.  When webdriver.Chrome
\* raises there is no session and the script ends with the exception
AppStart ==
    /\ prog = "app" /\ pc = "a_start"
    /\ \E d \in AppCutoffs : min_date' = d
    /\ \E started \in BOOLEAN :
         IF started
         THEN driver' = "open" /\ pc' = "a_navigate" /\ outcome' = outcome
              /\ windows' = <<ListingWindow>> /\ focus' = 1
         ELSE driver' = driver /\ pc' = "a_crashed" /\ outcome' = "fatal"
              /\ UNCHANGED <<windows, focus>>
    /\ UNCHANGED <<prog, source, quits, page, scans, searches, clicks, next_seen,
                   next_hit, scraper_vars, entries, classified, final, last_scan,
                   dash_vars>>

\* lines 63-95: get, the Canadian Tenders link, the search box, the status
\* dropdown.  Each is waited for and used outside any handler: when one is
\* missing the exception leaves the try block
AppNavigate ==
    /\ prog = "app" /\ pc = "a_navigate"
    /\ \E got \in {"ready", "get raises", "no tenders link", "no search box",
                   "no status filter"} :
         /\ outcome' = got
         /\ searches' = IF got \in {"ready", "no status filter"} THEN searches + 1
                        ELSE searches
         /\ IF got = "ready" THEN pc' = "a_scan" /\ page' = 1
                             ELSE pc' = "a_finally" /\ page' = page
    /\ UNCHANGED <<prog, source, driver, quits, scans, clicks, next_seen, next_hit,
                   scraper_vars, app_vars, dash_vars>>

\* line 101: for page in range(1, 8)
InRange(p) == p >= 1 /\ p <= AppPages

\* line 168: if page < 7
AppTriesNextPage(p) == p < AppPages

\* lines 103-165: one page.  wait.until (line 107) raises TimeoutException
\* when no card becomes present, outside any handler
AppScanPage ==
    /\ prog = "app" /\ pc = "a_scan" /\ InRange(page)
    /\ scans' = scans + 1
    /\ \/ /\ pc' = "a_finally" /\ outcome' = "timeout"
          /\ UNCHANGED <<page, entries, windows, focus, last_scan>>
       \/ \E cards \in AppSitePages :
            LET st == ProcessCards([entries |-> entries, windows |-> windows,
                                    focus |-> focus, min_date |-> min_date], cards)
            IN  /\ Len(st.entries) <= MaxEntries
                /\ entries' = st.entries /\ windows' = st.windows /\ focus' = st.focus
                /\ last_scan' = [cards |-> cards, base |-> Len(entries)]
                /\ IF AppTriesNextPage(page)
                   THEN pc' = "a_advance" /\ page' = page
                   ELSE /\ page' = page + 1
                        /\ pc' = IF InRange(page + 1) THEN "a_scan" ELSE "a_finally"
                /\ outcome' = outcome
    /\ UNCHANGED <<prog, source, driver, quits, searches, clicks, next_seen, next_hit,
                   scraper_vars, min_date, classified, final, dash_vars>>

\* lines 168-177: the next-page link is found and clicked by JavaScript, or
\* the exception (no link, or the driver on another window) breaks the loop
AppNextPage ==
    /\ prog = "app" /\ pc = "a_advance"
    /\ \E found \in BOOLEAN :
         IF found /\ focus = 1
         THEN /\ clicks' = clicks + 1 /\ page' = page + 1
              /\ pc' = IF InRange(page + 1) THEN "a_scan" ELSE "a_finally"
         ELSE clicks' = clicks /\ page' = page /\ pc' = "a_finally"
    /\ last_scan' = NoScan
    /\ UNCHANGED <<prog, outcome, source, driver, quits, scans, searches, next_seen,
                   next_hit, scraper_vars, min_date, entries, windows, focus,
                   classified, final, dash_vars>>

\* the outcomes with which the try block is left by an exception
AppRaised(o) == o \in {"get raises", "no tenders link", "no search box",
                       "no status filter", "timeout"}

\* lines 179-186: finally driver.quit(); then the exception goes on, or
\* st.stop() when nothing was scraped, or the classification starts
AppFinally ==
    /\ prog = "app" /\ pc = "a_finally"
    /\ driver' = "quit" /\ quits' = quits + 1
    /\ windows' = <<>> /\ focus' = 0 /\ last_scan' = NoScan
    /\ pc' = IF AppRaised(outcome) THEN "a_crashed"
             ELSE IF entries = <<>> THEN "a_done"
             ELSE "a_classify"
    /\ UNCHANGED <<prog, outcome, source, page, scans, searches, clicks, next_seen,
                   next_hit, scraper_vars, min_date, entries, classified, final,
                   dash_vars>>

(***************************************************************************)
(* app.py: classification and result filter                                *)
(***************************************************************************)
Hardware == "Hardware/Instrument Requirement"
NotEligible == "Not Eligible (Hardware)"

\* line 204: candidate_labels
candidate_labels ==
    {"IT Services", "IT Solutions", "IT Product", "IT Consultancy",
     "AI-Based Opportunity", Hardware}

\* what the classifier answers: the top label and its score, in
\* ten-thousandths (none of them a tie of the rounding to three decimals)
ModelAnswers ==
    { [label |-> "IT Services", score |-> 3000],
      [label |-> "IT Services", score |-> 4996],
      [label |-> "IT Services", score |-> 5000],
      [label |-> "AI-Based Opportunity", score |-> 9000],
      [label |-> Hardware, score |-> 9000],
      [label |-> Hardware, score |-> 10000] }

\* round(score, 3), in thousandths, of a score in ten-thousandths
Round3(score) == (score + 5) \div 10

\* a variant that passes every label through, the hardware label too
FinalLabelVerbatim(label) == label

\* lines 227-230
FinalLabel(label) == IF label = Hardware THEN NotEligible ELSE label

\* lines 218-233: one text classified; an exception of the classifier is
\* not handled and ends the script
AppClassify ==
    /\ prog = "app" /\ pc = "a_classify" /\ Len(classified) < Len(entries)
    /\ \/ /\ pc' = "a_crashed" /\ outcome' = "classifier raises"
          /\ UNCHANGED classified
       \/ \E result \in ModelAnswers :
            /\ result.label \in candidate_labels
            /\ classified' = Append(classified,
                                    [label |-> result.label,
                                     score |-> result.score,
                                     Predicted_Category |-> FinalLabel(result.label),
                                     Confidence |-> Round3(result.score)])
            /\ UNCHANGED <<pc, outcome>>
    /\ UNCHANGED <<prog, source, driver, quits, page, scans, searches, clicks,
                   next_seen, next_hit, scraper_vars, min_date, entries, windows, focus,
                   final, last_scan, dash_vars>>

\* lines 242-245: the mask of the filter
Retained(row) ==
    row.Predicted_Category # NotEligible /\ row.Confidence >= ConfidenceThreshold

\* lines 235-245: the columns added, the frame filtered (rows keep their index)
AppFilter ==
    /\ prog = "app" /\ pc = "a_classify" /\ Len(classified) = Len(entries)
    /\ LET df == [i \in 1..Len(entries) |->
                    [index |-> i,
                     Title |-> entries[i].Title,
                     Link |-> entries[i].Link,
                     Published |-> entries[i].Published,
                     Description |-> entries[i].Description,
                     Predicted_Category |-> classified[i].Predicted_Category,
                     Confidence |-> classified[i].Confidence]]
       IN  final' = SelectSeq(df, Retained)
    /\ pc' = "a_done"
    /\ UNCHANGED <<prog, walk_vars, scraper_vars, min_date, entries, windows, focus,
                   classified, last_scan, dash_vars>>

AppNext ==
    \/ AppStart \/ AppNavigate \/ AppScanPage \/ AppNextPage
    \/ AppFinally \/ AppClassify \/ AppFilter

(***************************************************************************)
(* streamlit_app.py: the Run Scraper button and trigger_workflow           *)
(***************************************************************************)
DigitChar(n) ==
    CASE n = 0 -> "0" [] n = 1 -> "1" [] n = 2 -> "2" [] n = 3 -> "3"
      [] n = 4 -> "4" [] n = 5 -> "5" [] n = 6 -> "6" [] n = 7 -> "7"
      [] n = 8 -> "8" [] n = 9 -> "9"

\* str(n) for n >= 0
RECURSIVE IntToText(_)
IntToText(n) ==
    IF n < 10 THEN <<DigitChar(n)>> ELSE IntToText(n \div 10) \o <<DigitChar(n % 10)>>

\* zero-padded to width w
RECURSIVE Padded(_, _)
Padded(s, w) == IF Len(s) >= w THEN s ELSE Padded(<<"0">> \o s, w)

\* date.strftime('%Y-%m-%d')
FormatDate(d) ==
    Padded(IntToText(d[1]), 4) \o <<"-">> \o Padded(IntToText(d[2]), 2)
        \o <<"-">> \o Padded(IntToText(d[3]), 2)

\* the dates of the date input
DashDates == {<<2025, 12, 10>>, <<2024, 1, 5>>}

\* what requests.post answers: a status, or raised (connection error)
Responses ==
    { [raised |-> FALSE, status |-> NoContent],
      [raised |-> FALSE, status |-> 200],
      [raised |-> FALSE, status |-> 404],
      [raised |-> FALSE, status |-> 500],
      [raised |-> TRUE, status |-> 0] }

\* lines 191-198: the JSON body
DispatchBody(search_term, mp, min_date_str) ==
    [ref |-> "main",
     inputs |-> [search_term |-> search_term,
                 max_pages |-> IntToText(mp),
                 min_published_date |-> min_date_str]]

\* a variant that takes every 2xx status for success
DispatchedAny2xx(response) == response.status >= 200 /\ response.status < 300

\* line 202: if response.status_code == 204
Dispatched(response) == response.status = NoContent

\* trigger_workflow, lines 200-210: <<what it returns, st.error calls>>
trigger_workflow(response) ==
    IF response.raised THEN [value |-> FALSE, errors |-> 1]
    ELSE IF Dispatched(response) THEN [value |-> TRUE, errors |-> 0]
    ELSE [value |-> FALSE, errors |-> 2]

\* main, lines 248-269: the button pressed.  Without the secrets the script
\* stops before the call
RunScraperButton ==
    /\ prog = "dashboard" /\ pc = "d_idle"
    /\ \E configured \in BOOLEAN, d \in DashDates, response \in Responses :
         IF configured
         THEN LET r == trigger_workflow(response)
              IN  /\ posts' = Append(posts, [body |-> DispatchBody("health", DispatchMaxPages,
                                                                   FormatDate(d)),
                                             date |-> d,
                                             response |-> response])
                  /\ ret' = IF r.value THEN "True" ELSE "False"
                  /\ errors' = r.errors
                  /\ pc' = IF r.value THEN "d_success" ELSE "d_failed"
         ELSE /\ pc' = "d_stopped"
              /\ UNCHANGED <<posts, ret, errors>>
    /\ UNCHANGED <<prog, walk_vars, scraper_vars, app_vars>>

\* the page is loaded again: the script starts over
Rerun ==
    /\ prog = "dashboard" /\ pc \in {"d_success", "d_failed", "d_stopped"}
    /\ pc' = "d_idle" /\ posts' = <<>> /\ ret' = "none" /\ errors' = 0
    /\ UNCHANGED <<prog, walk_vars, scraper_vars, app_vars>>

DashNext == RunScraperButton \/ Rerun

Init ==
    /\ \/ prog = "scraper" /\ pc = "idle"
       \/ prog = "app" /\ pc = "a_start"
       \/ prog = "dashboard" /\ pc = "d_idle"
    /\ outcome = "" /\ source = "" /\ driver = "none" /\ quits = 0 /\ page = 0
    /\ scans = 0 /\ searches = 0 /\ clicks = 0 /\ next_seen = <<>> /\ next_hit = 0
    /\ max_pages = 0 /\ min_published_date = None /\ min_date_obj = None
    /\ all_results = <<>> /\ extracted = <<>> /\ candidates = <<>>
    /\ artifact = NoFile /\ artifact_before = NoFile /\ saved = "none"
    /\ min_date = None /\ entries = <<>> /\ windows = <<>> /\ focus = 0
    /\ classified = <<>> /\ final = <<>> /\ last_scan = NoScan
    /\ posts = <<>> /\ ret = "none" /\ errors = 0

Next == ScraperNext \/ AppNext \/ DashNext

Spec == Init /\ [][Next]_vars

\* the steps of a run of scraper.py once main has started it
ScraperRun ==
    \/ SetupDriver \/ LoadPage \/ PerformSearch \/ ScrapePage
    \/ GoToNextPage \/ Finally \/ MainSave \/ ProcessExit

\* Both scripts are sequential programs: a step that can be taken is taken
\* (every wait in them is a bounded sleep or a wait with a timeout).
FairSpec == Spec /\ WF_vars(ScraperRun) /\ WF_vars(AppNext)

(***************************************************************************)
(* Properties.                                                             *)
(***************************************************************************)
\* a date as a number that orders like the calendar
DayNumber(d) == d[1] * 10000 + d[2] * 100 + d[3]

\* the indices of the frame that are in the final output of app.py
FinalIndices == {final[k].index : k \in 1..Len(final)}

\* states of app.py in which the page walk is over
AppWalkOver == pc \in {"a_classify", "a_done", "a_crashed"}

ScanBound ==
    /\ prog = "scraper" => scans <= max_pages
    /\ prog = "app" => scans <= AppPages

\* states in which no page walk is under way: scrape has not been called or
\* has returned, the app.py walk has left its try block
WalkAtRest ==
    \/ prog = "scraper" /\ pc \in {"idle", "returned", "exited"}
    \/ prog = "app" /\ AppWalkOver
    \/ prog = "dashboard"

\* C1: pagination terminates.  In every run scrape has made at most max_pages
\* page scans and the app.py walk at most 7, whatever the site answers (also
\* when a next-page control is clickable after every page); and no walk goes
\* on for ever: every call of scrape returns, every app.py walk comes to its
\* end.
C1_PaginationTerminates ==
    /\ []ScanBound
    /\ []<>WalkAtRest

\* a run of scrape that found a clickable next-page control after every page
\* and stopped at the page limit
C1_Witness ==
    /\ prog = "scraper" /\ pc = "returned" /\ outcome # "fatal"
    /\ max_pages >= 2 /\ scans = max_pages /\ clicks = max_pages - 1

\* the date filter as the claim states it, for a cutoff c
KeptByCutoff(r, c) ==
    LET d == _parse_date(r.published_date)
    IN  d = None \/ DayNumber(d) >= DayNumber(c)

\* C2: date filter of scrape.  With a well-formed cutoff c the accumulated
\* results are exactly the extracted results whose published date does not
\* parse (empty or of no known format) or parses to a date on or after c, in
\* order: a date equal to c is retained, an earlier one is dropped.
C2_DateFilter ==
    (prog = "scraper" /\ min_date_obj # None) =>
        LET Kept(r) == KeptByCutoff(r, min_date_obj)
        IN  all_results = SelectSeq(extracted, Kept)

\* the example of the specification: cutoff 2024-01-01 over the published
\* dates "2023-12-31", "2024-01-01", "not a date" and "" retains all but the
\* first
C2_Witness ==
    /\ prog = "scraper" /\ pc = "returned" /\ min_published_date = DateCut
    /\ LET Ext == {extracted[i].published_date : i \in 1..Len(extracted)}
           Res == {all_results[i].published_date : i \in 1..Len(all_results)}
       IN  /\ {DateOld, DateCut, DateNot, <<>>} \subseteq Ext
           /\ {DateCut, DateNot, <<>>} \subseteq Res
           /\ DateOld \notin Res

\* C3: every record of the final output of either pipeline (the list scrape
\* accumulates, the rows app.py retains) has a non-empty title.
C3_TitleNonEmpty ==
    /\ prog = "scraper" => \A i \in 1..Len(all_results) : all_results[i].title # <<>>
    /\ (prog = "app" /\ pc = "a_done") => \A k \in 1..Len(final) : final[k].Title # <<>>

\* whether a result passes the date filter of the run
PassesRunFilter(r) == min_date_obj = None \/ KeptByCutoff(r, min_date_obj)

\* C4, as claimed: every row read whose title is non-empty, of any length,
\* and which passes the date filter is in the list scrape accumulates.
C4_AnyTitleRetained ==
    prog = "scraper" =>
        \A i \in 1..Len(candidates) :
            (candidates[i].title # <<>> /\ PassesRunFilter(candidates[i]))
                => \E j \in 1..Len(all_results) : all_results[j] = candidates[i]

\* C4, amended: the list scrape accumulates is exactly, in order, the rows
\* read whose title is longer than 5 characters and which pass the date
\* filter; no such row is dropped for another reason, and a shorter title is
\* dropped.
C4_LongTitleRetained ==
    prog = "scraper" =>
        LET Kept(r) == Len(r.title) > 5 /\ PassesRunFilter(r)
        IN  all_results = SelectSeq(candidates, Kept)

\* a run that read a row with a title of 6 characters and kept it, and a row
\* with a title of 5 characters and dropped it
C4_Witness ==
    /\ prog = "scraper" /\ pc = "returned"
    /\ \E i \in 1..Len(candidates) : candidates[i].title = TitleFive
    /\ \E j \in 1..Len(all_results) : all_results[j].title = TitleSix
    /\ \A j \in 1..Len(all_results) : all_results[j].title # TitleFive

\* C5: confidence threshold of app.py.  Every record of the final output has
\* a classifier score, as returned and before rounding, of at least 0.5, and
\* every record whose score is below 0.5 is dropped.
C5_RawScoreThreshold ==
    (prog = "app" /\ pc = "a_done") =>
        \A i \in 1..Len(classified) :
            i \in FinalIndices => classified[i].score >= 5000

\* C6: exclusion sentinel of app.py.  A record whose top label is the
\* hardware label gets the sentinel category and is not in the final output,
\* whatever its score; for every other label the category is the label and
\* the record is in the final output iff its confidence is at least 0.5.
C6_ExclusionSentinel ==
    (prog = "app" /\ pc = "a_done") =>
        /\ Len(classified) = Len(entries)
        /\ \A i \in 1..Len(classified) :
             LET c == classified[i]
             IN  IF c.label = "Hardware/Instrument Requirement"
                 THEN c.Predicted_Category = "Not Eligible (Hardware)"
                      /\ i \notin FinalIndices
                 ELSE c.Predicted_Category = c.label
                      /\ (i \in FinalIndices <=> c.Confidence >= 500)

\* a finished run with a hardware record of score 1.0 excluded and another
\* record retained
C6_Witness ==
    /\ prog = "app" /\ pc = "a_done" /\ Len(final) = 1 /\ Len(classified) = 2
    /\ \E i \in 1..2 : classified[i].label = Hardware /\ classified[i].score = 10000

\* a run is over: scrape has returned, the app.py walk is over
RunOver ==
    \/ prog = "scraper" /\ pc \in {"returned", "exited"}
    \/ prog = "app" /\ AppWalkOver

\* C7: browser release.  quit is never called twice in a run, and when a run
\* is over no session is open: the session the run acquired, if any, has been
\* quit exactly once, on every exit path.
C7_BrowserReleased ==
    /\ quits <= 1
    /\ RunOver => /\ driver \in {"none", "quit"}
                  /\ quits = (IF driver = "quit" THEN 1 ELSE 0)

\* a run of scrape ended by an exception after the session was acquired
C7_Witness ==
    /\ prog = "scraper" /\ pc = "returned" /\ outcome = "fatal"
    /\ driver = "quit" /\ quits = 1 /\ scans >= 1

\* C8: 404 short-circuit.  Once the page loaded is an HTTP error page the run
\* is on its way out: no search, no page scan, no next-page activation, and
\* the list returned is empty.
C8_NotFoundShortCircuit ==
    (prog = "scraper" /\ source = "error 404") =>
        /\ pc \in {"finally", "returned", "exited"}
        /\ searches = 0 /\ scans = 0 /\ clicks = 0
        /\ all_results = <<>>

C8_Witness ==
    /\ prog = "scraper" /\ source = "error 404" /\ pc = "returned"
    /\ driver = "quit" /\ all_results = <<>>

\* C9: remote dispatch.  A call of trigger_workflow has issued exactly one
\* POST, with the body {ref, inputs: {search_term, max_pages as a string,
\* min_published_date as YYYY-MM-DD}}; it returned True iff the answer was
\* status 204, and False with an error message for every other status and
\* for an exception of the call.
C9_Dispatch ==
    (prog = "dashboard" /\ pc \in {"d_success", "d_failed"}) =>
        /\ Len(posts) = 1
        /\ posts[1].body.ref = "main"
        /\ posts[1].body.inputs.search_term = "health"
        /\ posts[1].body.inputs.max_pages = <<"5">>
        /\ Len(posts[1].body.inputs.min_published_date) = 10
        /\ Strptime(posts[1].body.inputs.min_published_date, 1) = posts[1].date
        /\ ret \in {"True", "False"}
        /\ ret = "True" <=> (~posts[1].response.raised /\ posts[1].response.status = 204)
        /\ ret = "False" => errors >= 1
        /\ (pc = "d_success") <=> (ret = "True")

\* a call that got status 200: not a success
C9_Witness ==
    /\ prog = "dashboard" /\ pc = "d_failed" /\ ret = "False" /\ errors = 2
    /\ posts[1].response.status = 200

C11_NavigatorTolerant ==
    /\ (prog = "scraper" /\ outcome = "absent" /\ max_pages >= 1)
          => (pc = "scan" \/ scans >= 1)
    /\ (prog = "app" /\ outcome \in {"no search box", "no status filter"})
          => (pc = "a_scan" \/ scans >= 1)

\* C12, as claimed: a setup failure of scrape is fatal.  After an exception
\* of the driver start, of the page load or of entering the search term, no
\* page is scanned and no row is accumulated.
C12_SetupFailureFatal ==
    prog = "scraper" =>
        /\ (outcome = "fatal" /\ page = 0) => (scans = 0 /\ all_results = <<>>)
        /\ outcome = "typing raises" => (pc # "scan" /\ scans = 0 /\ all_results = <<>>)

\* a card of which app.py can read every field and show the detail page
CardReadable(card) ==
    card.has_title /\ card.href # "" /\ card.has_date /\ card.detail = "shown"

\* the entries the page scan just made has appended
AppendedByScan == SubSeq(entries, last_scan.base + 1, Len(entries))

\* C13, as claimed: fail-open date parsing of app.py.  A card whose
\* published-date text does not parse is appended to entries, whatever the
\* cutoff.
C13_UnparsedDateRetained ==
    prog = "app" =>
        \A i \in 1..Len(last_scan.cards) :
            LET card == last_scan.cards[i]
            IN  (CardReadable(card) /\ Strptime(Strip(card.published), 2) = None)
                    => \E k \in 1..Len(AppendedByScan) :
                          /\ AppendedByScan[k].Title = Strip(card.title)
                          /\ AppendedByScan[k].Published = Strip(card.published)

\* a next-page candidate that is displayed and not disabled in any of the
\* three ways
Eligible(c) == c.displayed /\ ~c.disabled /\ ~c.aria /\ ~c.cls

\* C14, as claimed: the control a call of _go_to_next_page activates is the
\* first candidate, in selector priority order and then document order, that
\* is displayed and not disabled; the call activates none (returns False)
\* iff there is no such candidate.
C14_FirstEligibleActivated ==
    prog = "scraper" =>
        LET eligible == {j \in 1..Len(next_seen) : Eligible(next_seen[j])}
        IN  next_hit = (IF eligible = {} THEN 0
                        ELSE CHOOSE j \in eligible : \A i \in eligible : j <= i)

\* C14, amended: a click that raises (click() and the JavaScript click both)
\* gives up the selector of that candidate and the search goes on with the
\* next selector.  The control activated is the first candidate that is
\* displayed, not disabled, clickable, and not behind a failed click of its
\* own selector; the call returns False, and the walk ends, iff there is
\* none.  A call activates at most that one control.
C14_FirstClickableActivated ==
    prog = "scraper" =>
        LET Blocked(j) == \E k \in 1..(j - 1) :
                             /\ Eligible(next_seen[k])
                             /\ next_seen[k].click = "fail"
                             /\ next_seen[k].sel = next_seen[j].sel
            works == {j \in 1..Len(next_seen) :
                        /\ Eligible(next_seen[j])
                        /\ next_seen[j].click # "fail"
                        /\ ~Blocked(j)}
        IN  /\ next_hit = (IF works = {} THEN 0
                           ELSE CHOOSE j \in works : \A i \in works : j <= i)
            /\ (next_seen # <<>> /\ next_hit = 0) => pc = "finally"
            /\ next_hit # 0 => (clicks = page - 1 /\ clicks >= 1)

\* a call whose first eligible candidate could not be clicked and which
\* activated a candidate of a later selector
C14_Witness ==
    /\ prog = "scraper" /\ Len(next_seen) = 2 /\ next_hit = 2
    /\ Eligible(next_seen[1]) /\ next_seen[1].click = "fail"

\* a row of which the text can be read and is not blank
RowReadable(row) == ~row.err /\ Strip(row.text) # <<>>

\* the result, in candidates, of the i-th row of the page scan just made
\* (for a row that is readable): results are appended in row order
ResultOfRow(i) ==
    candidates[last_scan.base
                 + Cardinality({j \in 1..i : RowReadable(last_scan.cards[j])})]

\* the indices of the readable rows of the page scan just made of scrape
\* that have at least 3 cells
StructuredRows ==
    IF prog # "scraper" THEN {}
    ELSE {i \in 1..Len(last_scan.cards) :
            RowReadable(last_scan.cards[i]) /\ Len(last_scan.cards[i].tds) >= 3}

\* C15: structured row extraction.  For a row with n >= 3 cells title is
\* cell 0, organization cell 1, closing_date the last cell, and
\* published_date cell 2 when n >= 4 and empty when n = 3.
C15_ClosingIsLastCell ==
    \A i \in StructuredRows :
        LET tds == last_scan.cards[i].tds
            r == ResultOfRow(i)
        IN  /\ r.title = Strip(tds[1])
            /\ r.organization = Strip(tds[2])
            /\ r.closing_date = Strip(tds[Len(tds)])
            /\ r.published_date = (IF Len(tds) >= 4 THEN Strip(tds[3]) ELSE <<>>)

\* the indices of the readable rows of the page scan just made of scrape
\* that have fewer than 3 cells
HeuristicRows ==
    IF prog # "scraper" THEN {}
    ELSE {i \in 1..Len(last_scan.cards) :
            RowReadable(last_scan.cards[i]) /\ Len(last_scan.cards[i].tds) < 3}

\* C16: heuristic row extraction.  For a row with fewer than 3 cells, with
\* its text split into non-empty lines, title is line 0, organization line 1,
\* and published_date and closing_date are the first and the second line
\* after line 1 that is shorter than 30 characters and contains a digit;
\* lines 0 and 1 are never taken for a date.
C16_DatesAfterLineOne ==
    \A i \in HeuristicRows :
        LET lines == NonEmptyLines(Strip(last_scan.cards[i].text))
            later == SubSeq(lines, 3, Len(lines))
            Dated(l) == Len(l) < 30 /\ \E k \in 1..Len(l) : l[k] \in Digits
            dated == SelectSeq(later, Dated)
            r == ResultOfRow(i)
        IN  /\ r.title = lines[1]
            /\ r.organization = (IF Len(lines) > 1 THEN lines[2] ELSE <<>>)
            /\ r.published_date = (IF Len(dated) >= 1 THEN dated[1] ELSE <<>>)
            /\ r.closing_date = (IF Len(dated) >= 2 THEN dated[2] ELSE <<>>)

\* C17: an empty page is not an error, in both walkers.  When no listing row
\* is present on the page (the bounded wait times out, no selector matches)
\* the scan yields no row, what was accumulated is kept, and the walk goes on
\* to the next-page step or to its normal end: the run does not fail.
C17_EmptyPageNotAnError ==
    /\ (prog = "scraper" /\ pc = "advance" /\ last_scan.cards = <<>>)
          => (outcome # "fatal" /\ Len(candidates) = last_scan.base)
    /\ (prog = "app" /\ outcome = "timeout")
          => (pc # "a_crashed" /\ (entries # <<>> => pc # "a_done"))

\* a card that app.py reads without an exception and that passes the cutoff
CardInDate(card) ==
    /\ CardReadable(card)
    /\ Strptime(Strip(card.published), 2) # None
    /\ DayNumber(Strptime(Strip(card.published), 2)) >= DayNumber(min_date)

\* C18: row-level error containment.  An exception raised while one row or
\* card is extracted skips that row only: every other row of the page is
\* extracted as it is and accumulated (scrape: each readable row has its
\* result; app.py: each card that passes the cutoff has its entry, with its
\* own title, link, date and description), and the walk goes on.
C18_RowErrorContained ==
    /\ (prog = "scraper" /\ pc = "advance") =>
          /\ outcome # "fatal"
          /\ Len(candidates) - last_scan.base
               = Cardinality({i \in 1..Len(last_scan.cards) :
                                RowReadable(last_scan.cards[i])})
    /\ (prog = "app" /\ pc = "a_advance") =>
          \A i \in 1..Len(last_scan.cards) :
              LET card == last_scan.cards[i]
              IN  CardInDate(card) =>
                      \E k \in 1..Len(AppendedByScan) :
                          /\ AppendedByScan[k].Title = Strip(card.title)
                          /\ AppendedByScan[k].Published = Strip(card.published)
                          /\ AppendedByScan[k].Link
                               = (IF card.relative THEN Origin \o card.href ELSE card.href)
                          /\ AppendedByScan[k].Description = Strip(card.description)

\* a step of a run of scrape in which an exception is raised or has been
\* raised (the run is on its way from the handler to the return)
FatalStep ==
    /\ prog = "scraper" /\ pc \in {"setup", "load", "search", "scan", "advance", "finally"}
    /\ (outcome = "fatal" \/ outcome' = "fatal")

\* C19: partial results on a fatal error.  scrape does not propagate an
\* exception raised inside the walk: the step that raises goes to the handler
\* and the run returns; the list then returned is exactly what was
\* accumulated before the exception, in order, none lost and none added: the
\* rows of the pages before the page whose scan raised.
C19_PartialResultsKept ==
    /\ [][FatalStep => (all_results' = all_results /\ pc' \in {"finally", "returned"})]_vars
    /\ [](prog = "scraper" /\ outcome = "fatal" =>
             /\ pc \in {"finally", "returned", "exited"}
             /\ \A i \in 1..Len(all_results) : all_results[i].page < scans
             /\ all_results = SelectSeq(extracted, PassesRunFilter))

\* a run whose scan of page 2 raised and which returned the rows of page 1
C19_Witness ==
    /\ prog = "scraper" /\ pc = "returned" /\ outcome = "fatal"
    /\ scans = 2 /\ all_results # <<>>
    /\ \A i \in 1..Len(all_results) : all_results[i].page = 1

\* s is a prefix of t
IsPrefix(s, t) == Len(s) <= Len(t) /\ SubSeq(t, 1, Len(s)) = s

\* C20: page provenance.  Every record scrape accumulates has a page field
\* in 1..max_pages; the rows of a page scan carry 1 + the number of next-page
\* activations made before it; the records are in non-decreasing page order;
\* and the accumulator only grows by appending: no step of a run removes or
\* reorders what earlier pages put there.
C20_PageProvenance ==
    /\ [](prog = "scraper" =>
            /\ \A i \in 1..Len(all_results) :
                 /\ all_results[i].page \in 1..max_pages
                 /\ all_results[i].page <= clicks + 1
                 /\ \E k \in 1..Len(candidates) : candidates[k] = all_results[i]
            /\ \A i, j \in 1..Len(all_results) :
                 i <= j => all_results[i].page <= all_results[j].page
            /\ \A k \in 1..Len(candidates) :
                 IF last_scan.cards # <<>> /\ k > last_scan.base
                 THEN candidates[k].page = clicks + 1
                 ELSE candidates[k].page <= clicks + 1)
    /\ [][(prog = "scraper" /\ pc # "exited") => IsPrefix(all_results, all_results')]_vars

\* a run that returned rows of page 1 and, after one activation, of page 2
C20_Witness ==
    /\ prog = "scraper" /\ pc = "returned" /\ clicks = 1
    /\ \E i \in 1..Len(all_results) : all_results[i].page = 1
    /\ \E i \in 1..Len(all_results) : all_results[i].page = 2

\* a YYYY-MM-DD string: four digits, two digits, two digits, joined by
\* hyphens, naming a day of the calendar
IsIsoDate(s) ==
    /\ Len(s) = 10 /\ s[5] = "-" /\ s[8] = "-"
    /\ AllDigits(SubSeq(s, 1, 4)) /\ AllDigits(SubSeq(s, 6, 7))
    /\ AllDigits(SubSeq(s, 9, 10))
    /\ Strptime(s, 1) # None

\* C21, as claimed: whenever the min_published_date supplied is not a valid
\* YYYY-MM-DD string, the date filter of the run is disabled and every
\* extracted row is retained.
C21_MalformedDisablesFilter ==
    (prog = "scraper" /\ min_published_date # None /\ ~IsIsoDate(min_published_date)) =>
        /\ min_date_obj = None
        /\ all_results = extracted

\* C21, amended: whenever strptime with '%Y-%m-%d' rejects the
\* min_published_date supplied, scrape goes on to set up the driver, the date
\* filter is disabled for the whole run and every extracted row is retained,
\* as if no cutoff had been supplied; a string strptime accepts, zero-padded
\* or not, is a cutoff and the filter applies.
C21_UnparsedDisablesFilter ==
    /\ [](prog = "scraper" /\ min_published_date # None =>
            IF Strptime(min_published_date, 1) = None
            THEN min_date_obj = None /\ all_results = extracted
            ELSE /\ min_date_obj = Strptime(min_published_date, 1)
                 /\ all_results = SelectSeq(extracted, PassesRunFilter))
    /\ [][(prog = "scraper" /\ pc = "idle") => pc' = "setup"]_vars

\* a run with the malformed cutoff 01/01/2024 that returned a row published
\* 2023-12-31, which the cutoff 2024-01-01 drops
C21_Witness ==
    /\ prog = "scraper" /\ pc = "returned" /\ outcome # "fatal"
    /\ min_published_date = CutMalformed
    /\ \E i \in 1..Len(all_results) : all_results[i].published_date = DateOld

\* the browser state app.py is in at the start of card k + 1 of a page whose
\* scan starts from st
BeforeCard(st, cards, k) == ProcessCards(st, SubSeq(cards, 1, k))

\* exactly one window is open and the driver is on the listing window
OnListingOnly(w, f) == Len(w) = 1 /\ f = 1 /\ w[1] = ListingWindow

\* C22: window discipline of app.py.  At the start of every card and at
\* every next-page step exactly one browser window is open, the listing
\* window, and the driver is focused on it: a detail window opened for a card
\* is closed before the next card, also when an exception skips the card.
C22_WindowDiscipline ==
    /\ [](prog = "app" /\ pc \in {"a_scan", "a_advance"} => OnListingOnly(windows, focus))
    /\ [][(prog = "app" /\ pc = "a_scan" /\ last_scan'.cards # <<>>) =>
            \A k \in 0..(Len(last_scan'.cards) - 1) :
                LET st == BeforeCard([entries |-> entries, windows |-> windows,
                                      focus |-> focus, min_date |-> min_date],
                                     last_scan'.cards, k)
                IN  OnListingOnly(st.windows, st.focus)]_vars

=============================================================================
